---- MODULE Spec2Model ----
(***************************************************************************)
(* A model of src/src/merger.rs: Merger<P>, the grid placement             *)
(* bookkeeping (new, get_next_paste_coordinates, push) and the             *)
(* data-parallel paste of one image's pixels into the shared canvas.       *)
(*                                                                         *)
(* One push is modelled as PushBegin (the capacity check, the placement    *)
(* arithmetic and the fan-out of the collected pixels), one WorkerRequest  *)
(* and one WorkerPut step per pixel taken by the rayon workers in any      *)
(* order, and PushEnd (the join of for_each followed by the two counter    *)
(* increments).  A panic is recorded in result; the Merger is left as the  *)
(* unwinding leaves it, so that a caller which catches the unwind can be   *)
(* modelled calling push again.                                            *)
(***************************************************************************)
EXTENDS Integers, Sequences, FiniteSets, TLC

(* ------------------------------ bounds --------------------------------- *)

\* Largest canvas area (cell_width * cell_height * columns * rows) of the
\* geometries whose products fit; also the largest single side drawn.
MaxCanvas == 4

\* Pixel values are 0..MaxPixel.
MaxPixel == 2

\* Number of rayon workers that can hold a handout at the same time.
NumWorkers == 2

\* Number of pushes, over one run, of an image that is not cell-sized.
MaxMismatched == 1

(* --------------------------- machine integers -------------------------- *)

\* A u32 is held as an integer below 2^31 in the state and, inside the
\* arithmetic, as a pair of 16-bit limbs <<high, low>>, so that a product
\* or a difference that leaves the u32 range is computed exactly.
Limb == 2^16

\* A side and a count whose product is exactly 2^32.
Half32 == 2^16

\* A side whose product with 4 is 2^32 + 4.
Quarter32 == 2^30 + 1

\* The value every pixel of ImageBuffer::new(..) holds.
Default == 0

ToPair(n) == <<n \div Limb, n % Limb>>

FromPair(p) == p[1] * Limb + p[2]

IsZero(p) == p[1] = 0 /\ p[2] = 0

\* u32 + u32: [overflow, pair], pair being the wrapped sum.
AddPair(p, q) ==
  LET lo == p[2] + q[2]
      hi == p[1] + q[1] + lo \div Limb
  IN  [overflow |-> hi >= Limb, pair |-> <<hi % Limb, lo % Limb>>]

RECURSIVE MulPair(_, _)
\* u32 * u32 by doubling: [overflow, pair], pair being the wrapped product.
MulPair(p, n) ==
  IF n = 0 THEN [overflow |-> FALSE, pair |-> <<0, 0>>]
  ELSE LET rest == IF n \div 2 = 0
                   THEN [overflow |-> FALSE, pair |-> <<0, 0>>]
                   ELSE LET dbl == AddPair(p, p)
                            m == MulPair(dbl.pair, n \div 2)
                        IN  [overflow |-> dbl.overflow \/ m.overflow, pair |-> m.pair]
           sum == IF n % 2 = 1 THEN AddPair(rest.pair, p)
                  ELSE [overflow |-> FALSE, pair |-> rest.pair]
       IN  [overflow |-> rest.overflow \/ sum.overflow, pair |-> sum.pair]

\* a * b on u32 (the doubling runs over the smaller factor).
MulU32(a, b) == IF a < b THEN MulPair(ToPair(b), a) ELSE MulPair(ToPair(a), b)

\* a + b on u32.
AddU32(a, b) == AddPair(ToPair(a), ToPair(b))

\* p - n on u32, p a pair: the wrapped difference is 2^32 - (n - p) on underflow.
SubU32(p, n) ==
  LET a == FromPair(p)
  IN  IF a >= n THEN [overflow |-> FALSE, pair |-> ToPair(a - n)]
      ELSE [overflow |-> TRUE,
            pair |-> <<(Limb - 1) - ((n - a - 1) \div Limb),
                       (Limb - 1) - ((n - a - 1) % Limb)>>]

VARIABLES
  pc,                 \* "start" | "idle" | "pasting" | "none"
  build,              \* "unobserved" | "checked" | "wrapping" (see Profiles)
  image_dimensions,   \* Merger.image_dimensions (w, h)
  images_per_row,     \* Merger.images_per_row
  total_rows,         \* Merger.total_rows
  num_images,         \* Merger.num_images
  last_pasted_index,  \* Merger.last_pasted_index
  canvas,             \* Merger.canvas: [width, height, px]
  image,              \* the image of the push in flight
  paste_index,        \* current_paste_index of the paste in flight
  paste_at,           \* (paste_x, paste_y) of the paste in flight
  todo,               \* pixel indices no worker has taken yet
  handouts,           \* outstanding handouts: [index, x, y]
  issued,             \* every handout requested during the paste in flight
  worker_panicked,    \* a worker of the paste in flight has panicked
  result,             \* outcome of the last call of new or push: [op, status]
  returned,           \* what the last call returned, if it was a getter
  canvas_before,      \* the canvas as the last paste found it
  pushed,             \* images committed so far, in call order
  mismatched          \* pushes of an image that is not cell-sized, so far

vars == <<pc, build, image_dimensions, images_per_row, total_rows,
          num_images, last_pasted_index, canvas, image, paste_index, paste_at,
          todo,
          handouts, issued, worker_panicked, result, returned, canvas_before,
          pushed, mismatched>>

geometry == <<image_dimensions, images_per_row, total_rows>>

counters == <<num_images, last_pasted_index>>

paste_state == <<image, paste_index, paste_at, todo, handouts, issued, worker_panicked>>

\* The value of returned after a call that is not a getter: push returns (),
\* and takes the Merger by &mut, so no reference got from get_canvas is alive.
NoReturn == [op |-> "none"]

(* ------------------------------- inputs -------------------------------- *)

Sides == 0..MaxCanvas

AtLeastOne(n) == IF n = 0 THEN 1 ELSE n

\* (w, h, cols, rows) whose canvas is small enough to hold as a function;
\* a zero side counts as one, so that the other sides stay small as well.
SmallGeometries ==
  {g \in Sides \X Sides \X Sides \X Sides :
     AtLeastOne(g[1]) * AtLeastOne(g[2]) * AtLeastOne(g[3]) * AtLeastOne(g[4]) <= MaxCanvas}

\* Geometries whose canvas width or height does not fit a u32.
OverflowGeometries ==
  { <<Half32, 1, Half32, 1>>, <<1, Half32, 1, Half32>>,
    <<Half32, Half32, Half32, Half32>>, <<Quarter32, 1, 4, 1>> }

Geometries == SmallGeometries \cup OverflowGeometries

NoImage == [width |-> 0, height |-> 0, pixels |-> <<>>]

\* image.pixels().collect(): the pixels in row-major order, index 0 first.
MakeImage(iw, ih, base) ==
  [width |-> iw, height |-> ih,
   pixels |-> [j \in 0..(iw * ih - 1) |-> (base + j) % (MaxPixel + 1)]]

ImageSides(c) == IF c > MaxCanvas THEN {1} ELSE {s \in {c - 1, c, c + 1} : s >= 0}

CellSized(img) ==
  img.width = image_dimensions[1] /\ img.height = image_dimensions[2]

\* The sizes of the images a caller may hand to push: the cell's, or off
\* by one in one side.
ImageSizes ==
  {d \in (ImageSides(image_dimensions[1]) \X ImageSides(image_dimensions[2])) :
     /\ d[1] = image_dimensions[1] \/ d[2] = image_dimensions[2]
          \/ image_dimensions[1] > MaxCanvas \/ image_dimensions[2] > MaxCanvas
     /\ d[1] * d[2] <= MaxCanvas}

\* The value of the first pixel of an image a caller hands to push: the
\* lowest and the highest value that is not the default.
Bases == {1, MaxPixel}

\* The images a caller may hand to push: two of every size.
Images == {MakeImage(d[1], d[2], b) : d \in ImageSizes, b \in Bases}

(* -------------------------------- new ---------------------------------- *)

BlankCanvas(cw, ch) ==
  [width |-> cw, height |-> ch,
   px |-> [p \in (0..(cw - 1)) \X (0..(ch - 1)) |-> Default]]

Init ==
  /\ pc = "start"
  /\ build = "unobserved"
  /\ image_dimensions = <<0, 0>>
  /\ images_per_row = 0
  /\ total_rows = 0
  /\ num_images = 0
  /\ last_pasted_index = -1
  /\ canvas = BlankCanvas(0, 0)
  /\ image = NoImage
  /\ paste_index = 0
  /\ paste_at = <<0, 0>>
  /\ todo = {}
  /\ handouts = {}
  /\ issued = {}
  /\ worker_panicked = FALSE
  /\ result = [op |-> "none", status |-> "Ok"]
  /\ returned = NoReturn
  /\ canvas_before = BlankCanvas(0, 0)
  /\ pushed = <<>>
  /\ mismatched = 0

\* An arithmetic overflow panics in a build with overflow checks and wraps
\* in one without.  Which build runs is fixed before the program starts, and
\* nothing shows it until the first overflow: build stays "unobserved" until
\* then, and the first overflow settles it for the rest of the run.
\* Profiles(overflows) is the set of builds (TRUE: with overflow checks) a
\* step may be running in; a step in which nothing overflows is the same step
\* in both, and is taken once.
Profiles(overflows) ==
  IF ~overflows THEN {FALSE}
  ELSE IF build = "unobserved" THEN BOOLEAN ELSE {build = "checked"}

Observed(overflowed, checks) ==
  IF overflowed THEN (IF checks THEN "checked" ELSE "wrapping") ELSE build

\* Merger::new when a canvas side overflows under overflow checks.
NewPanics(w, h, cols, rows) ==
  /\ pc = "start"
  /\ MulU32(w, cols).overflow \/ MulU32(h, rows).overflow
  /\ TRUE \in Profiles(TRUE)
  /\ build' = "checked"
  /\ pc' = "none"
  /\ result' = [op |-> "new", status |-> "PanicOverflow"]
  /\ UNCHANGED <<geometry, counters, canvas, paste_state, returned, canvas_before,
                 pushed, mismatched>>

\* Merger::new returning a Merger.
New(w, h, cols, rows) ==
  /\ pc = "start"
  /\ FALSE \in Profiles(MulU32(w, cols).overflow \/ MulU32(h, rows).overflow)
  /\ build' = Observed(MulU32(w, cols).overflow \/ MulU32(h, rows).overflow, FALSE)
  /\ canvas' = BlankCanvas(FromPair(MulU32(w, cols).pair), FromPair(MulU32(h, rows).pair))
  /\ image_dimensions' = <<w, h>>
  /\ num_images' = 0
  /\ images_per_row' = cols
  /\ last_pasted_index' = -1
  /\ total_rows' = rows
  /\ pc' = "idle"
  /\ result' = [op |-> "new", status |-> "Ok"]
  /\ UNCHANGED <<paste_state, returned, canvas_before, pushed, mismatched>>

(* --------------------- get_next_paste_coordinates ---------------------- *)

\* images_per_row * total_rows
Capacity == MulU32(images_per_row, total_rows)

\* The subtraction taking last_pasted_index for num_images.
available_images_ByIndex == SubU32(Capacity.pair, last_pasted_index)

\* (images_per_row * total_rows) - num_images
available_images == SubU32(Capacity.pair, num_images)

\* The capacity check left out.
NoMoreSpace_Never == FALSE

\* if available_images == 0 { panic!(..) }
NoMoreSpace == IsZero(available_images.pair)

\* The paste index taken one past the next cell.
current_paste_index_Skipping == last_pasted_index + 2

\* (last_pasted_index + 1) as u32
current_paste_index == last_pasted_index + 1

\* get_next_paste_coordinates with the row offset scaled by the cell width
\* in place of the cell height.
get_next_paste_coordinates_RowByWidth(checks) ==
  IF checks /\ (Capacity.overflow \/ available_images.overflow)
  THEN [status |-> "PanicOverflow", x |-> 0, y |-> 0, overflowed |-> TRUE]
  ELSE IF NoMoreSpace
  THEN [status |-> "PanicNoMoreSpace", x |-> 0, y |-> 0,
        overflowed |-> Capacity.overflow \/ available_images.overflow]
  ELSE IF images_per_row = 0
  THEN [status |-> "PanicDivideByZero", x |-> 0, y |-> 0,
        overflowed |-> Capacity.overflow \/ available_images.overflow]
  ELSE LET offset_x == current_paste_index % images_per_row
           offset_y == current_paste_index \div images_per_row
           x == MulU32(offset_x, image_dimensions[1])
           y == MulU32(offset_y, image_dimensions[1])
           overflowed == \/ Capacity.overflow \/ available_images.overflow
                         \/ x.overflow \/ y.overflow
       IN  IF checks /\ (x.overflow \/ y.overflow)
           THEN [status |-> "PanicOverflow", x |-> 0, y |-> 0, overflowed |-> TRUE]
           ELSE [status |-> "Ok", x |-> FromPair(x.pair), y |-> FromPair(y.pair),
                 overflowed |-> overflowed]

\* The result of get_next_paste_coordinates on the current state in a build
\* with (checks) or without overflow checks: [status, x, y, overflowed],
\* status being "Ok" or the panic it ends in.
get_next_paste_coordinates(checks) ==
  IF checks /\ (Capacity.overflow \/ available_images.overflow)
  THEN [status |-> "PanicOverflow", x |-> 0, y |-> 0, overflowed |-> TRUE]
  ELSE IF NoMoreSpace
  THEN [status |-> "PanicNoMoreSpace", x |-> 0, y |-> 0,
        overflowed |-> Capacity.overflow \/ available_images.overflow]
  ELSE IF images_per_row = 0
  THEN [status |-> "PanicDivideByZero", x |-> 0, y |-> 0,
        overflowed |-> Capacity.overflow \/ available_images.overflow]
  ELSE LET offset_x == current_paste_index % images_per_row
           offset_y == current_paste_index \div images_per_row
           x == MulU32(offset_x, image_dimensions[1])
           y == MulU32(offset_y, image_dimensions[2])
           overflowed == \/ Capacity.overflow \/ available_images.overflow
                         \/ x.overflow \/ y.overflow
       IN  IF checks /\ (x.overflow \/ y.overflow)
           THEN [status |-> "PanicOverflow", x |-> 0, y |-> 0, overflowed |-> TRUE]
           ELSE [status |-> "Ok", x |-> FromPair(x.pair), y |-> FromPair(y.pair),
                 overflowed |-> overflowed]

(* -------------------------------- paste -------------------------------- *)

\* The paste coordinates exchanged: the column offset added to the pixel's
\* row and the row offset to its column.
Destination_OffsetsSwapped(index) ==
  LET x == index % image.width
      y == index \div image.width
  IN  [x |-> AddU32(paste_at[2], x), y |-> AddU32(paste_at[1], y)]

\* The pixel's column and row exchanged.
Destination_Transposed(index) ==
  LET x == index \div image.width
      y == index % image.width
  IN  [x |-> AddU32(paste_at[1], x), y |-> AddU32(paste_at[2], y)]

\* The pixel's row taken modulo the image width, as its column is.
Destination_RowFolded(index) ==
  LET x == index % image.width
      y == index % image.width
  IN  [x |-> AddU32(paste_at[1], x), y |-> AddU32(paste_at[2], y)]

\* let x = index as u32 % image_width; let y = index as u32 / image_width;
\* canvas_x = paste_x + x; canvas_y = paste_y + y
Destination(index) ==
  LET x == index % image.width
      y == index \div image.width
  IN  [x |-> AddU32(paste_at[1], x), y |-> AddU32(paste_at[2], y)]

\* ImageCell::request_handout hands out the pixel at (x, y) of the canvas;
\* coordinates outside the buffer are refused.
InCanvas(x, y) == x < canvas.width /\ y < canvas.height

\* Handout::put_pixel: the one pixel at (x, y) is overwritten.
PutPixel(cv, x, y, pixel) == [cv EXCEPT !.px[<<x, y>>] = pixel]

\* A for_each that never returns.
Joined_Never == FALSE

\* The pixels handed to workers that paste does not wait for.
Joined_NoWait == TRUE

\* for_each returns once every pixel has been processed.
Joined == todo = {} /\ handouts = {}

(* -------------------------------- push --------------------------------- *)

\* The index left where it was.
NextIndex_Kept(last) == last

\* self.last_pasted_index += 1
NextIndex(last) == last + 1

\* The count advanced by two.
NextCount_Twice(count) == count + 2

\* self.num_images += 1
NextCount(count) == count + 1

\* The getter returning the index of the last image.
get_num_images_LastIndex == last_pasted_index

\* get_num_images
get_num_images == num_images

\* get_canvas
get_canvas == canvas

Counts(img) == IF CellSized(img) THEN mismatched ELSE mismatched + 1

\* push whose get_next_paste_coordinates panics.
PushFails(img) ==
  /\ pc = "idle"
  /\ Counts(img) <= MaxMismatched
  /\ \E checks \in Profiles(get_next_paste_coordinates(FALSE).overflowed) :
       LET next == get_next_paste_coordinates(checks)
       IN  /\ next.status # "Ok"
           /\ result' = [op |-> "push", status |-> next.status]
           /\ build' = Observed(next.overflowed, checks)
  /\ mismatched' = Counts(img)
  /\ returned' = NoReturn
  /\ UNCHANGED <<pc, geometry, counters, canvas, paste_state, canvas_before, pushed>>

\* push up to the fan-out of paste: the coordinates are computed, the
\* pixels are collected and handed to the workers.
PushBegin(img) ==
  /\ pc = "idle"
  /\ Counts(img) <= MaxMismatched
  /\ \E checks \in Profiles(get_next_paste_coordinates(FALSE).overflowed) :
       LET next == get_next_paste_coordinates(checks)
       IN  /\ next.status = "Ok"
           /\ paste_at' = <<next.x, next.y>>
           /\ build' = Observed(next.overflowed, checks)
  /\ paste_index' = current_paste_index
  /\ image' = img
  /\ todo' = DOMAIN img.pixels
  /\ handouts' = {}
  /\ issued' = {}
  /\ worker_panicked' = FALSE
  /\ mismatched' = Counts(img)
  /\ pc' = "pasting"
  /\ returned' = NoReturn
  /\ canvas_before' = canvas
  /\ UNCHANGED <<geometry, counters, canvas, result, pushed>>

\* A worker takes pixel index and is handed the destination pixel.
WorkerRequest(index) ==
  /\ pc = "pasting"
  /\ index \in todo
  /\ Cardinality(handouts) < NumWorkers
  /\ \E checks \in Profiles(Destination(index).x.overflow
                             \/ Destination(index).y.overflow) :
       LET d == Destination(index)
           ho == [index |-> index, x |-> FromPair(d.x.pair), y |-> FromPair(d.y.pair)]
       IN  /\ ~(checks /\ (d.x.overflow \/ d.y.overflow))
           /\ InCanvas(ho.x, ho.y)
           /\ handouts' = handouts \cup {ho}
           /\ issued' = issued \cup {ho}
           /\ build' = Observed(d.x.overflow \/ d.y.overflow, checks)
  /\ todo' = todo \ {index}
  /\ UNCHANGED <<pc, geometry, counters, canvas, image, paste_index, paste_at,
                 worker_panicked, result, returned, canvas_before, pushed, mismatched>>

\* A worker takes pixel index and its destination is refused: it panics.
WorkerPanics(index) ==
  /\ pc = "pasting"
  /\ index \in todo
  /\ Cardinality(handouts) < NumWorkers
  /\ \E checks \in Profiles(Destination(index).x.overflow
                             \/ Destination(index).y.overflow) :
       LET d == Destination(index)
           ho == [index |-> index, x |-> FromPair(d.x.pair), y |-> FromPair(d.y.pair)]
       IN  /\ \/ checks /\ (d.x.overflow \/ d.y.overflow)
              \/ ~InCanvas(ho.x, ho.y)
           /\ issued' = issued \cup {ho}
           /\ build' = Observed(d.x.overflow \/ d.y.overflow, checks)
  /\ todo' = todo \ {index}
  /\ worker_panicked' = TRUE
  /\ UNCHANGED <<pc, geometry, counters, canvas, image, paste_index, paste_at,
                 handouts, result, returned, canvas_before, pushed, mismatched>>

\* handout.put_pixel(pixel.clone()); the handout is dropped.
WorkerPut(ho) ==
  /\ pc = "pasting"
  /\ ho \in handouts
  /\ canvas' = PutPixel(canvas, ho.x, ho.y, image.pixels[ho.index])
  /\ handouts' = handouts \ {ho}
  /\ UNCHANGED <<pc, build, geometry, counters, image, paste_index, paste_at, todo,
                 issued, worker_panicked, result, returned, canvas_before, pushed,
                 mismatched>>

\* paste returns; push commits: last_pasted_index += 1; num_images += 1.
PushEnd ==
  /\ pc = "pasting"
  /\ ~worker_panicked
  /\ Joined
  /\ last_pasted_index' = NextIndex(last_pasted_index)
  /\ num_images' = NextCount(num_images)
  /\ pushed' = Append(pushed, image)
  /\ result' = [op |-> "push", status |-> "Ok"]
  /\ pc' = "idle"
  /\ UNCHANGED <<build, geometry, canvas, image, paste_index, paste_at, todo,
                 handouts, issued, worker_panicked, returned, canvas_before,
                 mismatched>>

\* A worker's panic is propagated out of for_each, paste and push once the
\* workers that were running have finished; pixels not taken yet are dropped.
PushUnwinds ==
  /\ pc = "pasting"
  /\ worker_panicked
  /\ handouts = {}
  /\ todo' = {}
  /\ result' = [op |-> "push", status |-> "PanicOutOfBounds"]
  /\ pc' = "idle"
  /\ UNCHANGED <<build, geometry, counters, canvas, image, paste_index, paste_at,
                 handouts, issued, worker_panicked, returned, canvas_before, pushed,
                 mismatched>>

\* get_num_images(&self) -> u32
GetNumImages ==
  /\ pc = "idle"
  /\ returned' = [op |-> "get_num_images", value |-> get_num_images]
  /\ UNCHANGED <<pc, build, geometry, counters, canvas, paste_state, result,
                 canvas_before, pushed, mismatched>>

\* get_canvas(&self) -> &Image
GetCanvas ==
  /\ pc = "idle"
  /\ returned' = [op |-> "get_canvas", value |-> get_canvas]
  /\ UNCHANGED <<pc, build, geometry, counters, canvas, paste_state, result,
                 canvas_before, pushed, mismatched>>

Next ==
  \/ pc = "start" /\ \E g \in Geometries : NewPanics(g[1], g[2], g[3], g[4])
  \/ pc = "start" /\ \E g \in Geometries : New(g[1], g[2], g[3], g[4])
  \/ pc = "idle" /\ \E img \in Images : PushFails(img)
  \/ pc = "idle" /\ \E img \in Images : PushBegin(img)
  \/ \E index \in todo : WorkerRequest(index)
  \/ \E index \in todo : WorkerPanics(index)
  \/ \E ho \in handouts : WorkerPut(ho)
  \/ PushEnd
  \/ PushUnwinds
  \/ GetNumImages
  \/ GetCanvas

\* A step of a worker of the pool.
WorkerStep ==
  \/ \E index \in todo : WorkerRequest(index)
  \/ \E index \in todo : WorkerPanics(index)
  \/ \E ho \in handouts : WorkerPut(ho)

Spec == Init /\ [][Next]_vars

\* The pool runs every worker that can take a step, and the thread that
\* called push resumes once for_each has returned.
FairSpec == Spec /\ WF_vars(WorkerStep) /\ WF_vars(PushEnd)

(* ------------------------------ properties ----------------------------- *)

cell_width == image_dimensions[1]

cell_height == image_dimensions[2]

\* A Merger exists.
Constructed == pc \in {"idle", "pasting"}

\* Positive sides and counts, and a canvas that fits.
ValidGeometry ==
  /\ cell_width > 0 /\ cell_height > 0 /\ images_per_row > 0 /\ total_rows > 0
  /\ ~MulU32(cell_width, images_per_row).overflow
  /\ ~MulU32(cell_height, total_rows).overflow
  /\ ~Capacity.overflow

\* The grid is full: placed_count = columns_per_row * total_rows.
Full == Constructed /\ ~Capacity.overflow /\ num_images = FromPair(Capacity.pair)

\* Cell i of the canvas holds img, pixel for pixel.
CellHolds(i, img) ==
  \A x \in 0..(cell_width - 1), y \in 0..(cell_height - 1) :
    LET cx == (i % images_per_row) * cell_width + x
        cy == (i \div images_per_row) * cell_height + y
    IN  /\ <<cx, cy>> \in DOMAIN canvas.px
        /\ canvas.px[<<cx, cy>>] = img.pixels[y * cell_width + x]

\* C1: while only cell-sized images have been pushed, in every state between
\* pushes, each of the placed_count images pushed so far is found unmodified
\* in the canvas, image i with its top-left pixel at
\* ((i mod cols) * w, (i div cols) * h).
C1_PlacedImagesRoundTrip ==
  (pc = "idle" /\ mismatched = 0) =>
    /\ Len(pushed) = num_images
    /\ \A i \in 0..(num_images - 1) : CellHolds(i, pushed[i + 1])

\* C1 witness: a 2 x 2 grid filled by four cell-sized images, not all alike.
C1_Witness ==
  /\ pc = "idle" /\ mismatched = 0
  /\ images_per_row = 2 /\ total_rows = 2 /\ num_images = 4
  /\ pushed[1] # pushed[2] /\ pushed[3] # pushed[4]

\* A step from idle that is a call of push: the getters alone return a value.
IsPushCall == pc = "idle" /\ returned' = NoReturn

\* C2: on a valid geometry, once cols * rows cell-sized images have been
\* pushed, get_num_images() is cols * rows and a further push fails for lack
\* of capacity, whatever image it is given.
C2_FullThenCapacityExhausted ==
  [][(pc = "idle" /\ ValidGeometry /\ mismatched = 0
        /\ Len(pushed) = images_per_row * total_rows)
     => /\ get_num_images = images_per_row * total_rows
        /\ pc' = "idle"
        /\ get_num_images' = get_num_images
        /\ IsPushCall => result' = [op |-> "push", status |-> "PanicNoMoreSpace"]]_vars

\* C2 witness: a grid of several cells filled by cell-sized images, and a
\* further push refused.
C2_Witness ==
  /\ pc = "idle" /\ ValidGeometry /\ mismatched = 0
  /\ images_per_row * total_rows >= 3
  /\ Len(pushed) = images_per_row * total_rows
  /\ result = [op |-> "push", status |-> "PanicNoMoreSpace"]

\* C3: during one paste no two handouts are ever issued for the same canvas
\* coordinate, so no two outstanding handouts alias and no coordinate is
\* written twice: the map from pixel index to destination is injective.
C3_HandoutsNeverAlias ==
  /\ \A a, b \in issued : (a.x = b.x /\ a.y = b.y) => a.index = b.index
  /\ \A a, b \in handouts : (a.x = b.x /\ a.y = b.y) => a = b
  /\ handouts \subseteq issued
  /\ pc = "pasting" => Cardinality(issued) = Cardinality(DOMAIN image.pixels \ todo)

\* C3 witness: two workers hold handouts at once, in the second row of an
\* image of two columns, after other pixels of it have been written.
C3_Witness ==
  /\ pc = "pasting"
  /\ image.width = 2 /\ image.height = 2
  /\ Cardinality(handouts) = 2
  /\ \A ho \in handouts : ho.index >= 2
  /\ Cardinality(issued) = 4

\* C4: a push of an image that is not cell-sized fails with DimensionMismatch:
\* no paste of such an image is ever in flight, and none is ever counted.
C4_MismatchRejected ==
  /\ pc = "pasting" => CellSized(image)
  /\ \A k \in 1..Len(pushed) : CellSized(pushed[k])

\* C5: 0 <= placed_count <= columns_per_row * total_rows in every state of a
\* Merger, and the capacity subtraction does not underflow.
C5_CountWithinCapacity ==
  Constructed =>
    /\ 0 <= num_images
    /\ Capacity.overflow \/ num_images <= FromPair(Capacity.pair)
    /\ ~available_images.overflow

\* C5 witness: a full grid that has also seen a refused push and a push of
\* an image that is not cell-sized.
C5_Witness ==
  /\ Full /\ num_images >= 2 /\ mismatched = 1
  /\ result.status = "PanicNoMoreSpace"

\* C6: last_placed_index = placed_count - 1 (the sentinel -1 when nothing has
\* been placed), so the index used for placement equals the count used for
\* the capacity check.
C6_IndexFollowsCount ==
  Constructed =>
    /\ last_pasted_index = num_images - 1
    /\ num_images = 0 => last_pasted_index = -1
    /\ current_paste_index = num_images

\* C6 witness: three images placed, the last of them not cell-sized.
C6_Witness ==
  /\ pc = "idle" /\ num_images = 3 /\ last_pasted_index = 2
  /\ ~CellSized(pushed[3])

\* The pixels of the image in flight that are not in the canvas yet.
Unwritten == todo \cup {ho.index : ho \in handouts}

\* C7: while a pixel of image i is still unwritten the push of image i is in
\* flight and neither counter has been advanced for it.
C7_CommitAfterJoin ==
  Unwritten # {} =>
    /\ pc = "pasting"
    /\ num_images <= paste_index
    /\ last_pasted_index < paste_index

\* C7 witness: the second image of a run half written, one pixel in a
\* worker's hands.
C7_Witness ==
  /\ pc = "pasting" /\ paste_index = 1
  /\ todo # {} /\ handouts # {} /\ issued # handouts

\* A step that ends a push successfully.
PushSucceeds ==
  pc = "pasting" /\ pc' = "idle" /\ result' = [op |-> "push", status |-> "Ok"]

\* C8: placed_count grows by exactly one on every successful push and is
\* changed by nothing else; it never decreases; and a full grid is terminal:
\* every later push fails and leaves the count where it is.
C8_CountMonotone ==
  [][/\ PushSucceeds => num_images' = num_images + 1
     /\ (Constructed /\ ~PushSucceeds) => num_images' = num_images
     /\ num_images' >= num_images
     /\ Full => /\ Full'
                /\ pc' = "idle"
                /\ IsPushCall => (result'.op = "push" /\ result'.status # "Ok")]_vars

\* C8 witness: a push has just succeeded on a grid that it did not fill.
C8_Witness ==
  /\ pc = "idle" /\ result = [op |-> "push", status |-> "Ok"]
  /\ num_images = 2 /\ ~Full /\ mismatched = 0

\* The failures a caller receives as a value; every other failure is a panic.
Recoverable == {"CapacityExhausted", "DimensionMismatch", "InvalidConstruction"}

\* C9: a push on a full grid is reported as a recoverable failure and leaves
\* the counters and every canvas pixel as they were.
C9_FullPushRecoverable ==
  [][(Full /\ IsPushCall)
     => /\ result'.status \in Recoverable
        /\ UNCHANGED <<num_images, last_pasted_index, canvas>>]_vars

\* C10: Merger::new fails with InvalidConstruction when a canvas side is zero
\* or overflows: no call of new ends otherwise on such a geometry, and no
\* Merger has an empty or wrapped-around canvas.
C10_InvalidConstructionRejected ==
  /\ (result.op = "new" /\ pc = "none") => result.status = "InvalidConstruction"
  /\ Constructed =>
       /\ canvas.width > 0 /\ canvas.height > 0
       /\ ~MulU32(cell_width, images_per_row).overflow
       /\ ~MulU32(cell_height, total_rows).overflow

\* A step that is a call of a getter: it alone leaves a value in returned.
IsGetterCall == returned' # NoReturn /\ returned' # returned

\* C11: get_num_images returns the number of pushes that succeeded so far,
\* and no call of get_num_images or get_canvas, wherever it falls in a
\* sequence of operations, changes a counter or a pixel of the canvas.
C11_GettersReadOnly ==
  [][IsGetterCall
     => /\ returned'.op = "get_num_images" => returned'.value = Len(pushed)
        /\ returned'.op = "get_canvas" => returned'.value = canvas
        /\ UNCHANGED <<counters, canvas, geometry>>]_vars

\* get_num_images has answered 2 after two pushes that succeeded and one
\* that failed.
C11_Witness ==
  /\ returned = [op |-> "get_num_images", value |-> 2]
  /\ Len(pushed) = 2
  /\ result = [op |-> "push", status |-> "PanicNoMoreSpace"]

\* The pixels of cell i: [(i mod cols) * w, (i mod cols) * w + w) by
\* [(i div cols) * h, (i div cols) * h + h).
CellPixels(i) ==
  {p \in DOMAIN canvas.px :
     /\ p[1] >= (i % images_per_row) * cell_width
     /\ p[1] < (i % images_per_row) * cell_width + cell_width
     /\ p[2] >= (i \div images_per_row) * cell_height
     /\ p[2] < (i \div images_per_row) * cell_height + cell_height}

\* C12: every step of a push of a cell-sized image as image i = num_images,
\* from the call to the commit, leaves the geometry, the canvas width and
\* height and every canvas pixel outside cell i as they were; the counters
\* change in the commit alone.
C12_PushTouchesOwnCellOnly ==
  [][((pc = "pasting" \/ pc' = "pasting") /\ CellSized(image'))
     => /\ geometry' = geometry
        /\ canvas'.width = canvas.width /\ canvas'.height = canvas.height
        /\ DOMAIN canvas'.px = DOMAIN canvas.px
        /\ \A p \in DOMAIN canvas.px \ CellPixels(num_images) :
             canvas'.px[p] = canvas.px[p]
        /\ counters' # counters => (PushSucceeds /\ canvas' = canvas)]_vars

\* C12 witness: the fourth cell-sized image is committed to a 2 x 2 grid and
\* differs from the three placed before it, which are still in their cells.
C12_Witness ==
  /\ pc = "idle" /\ mismatched = 0 /\ result = [op |-> "push", status |-> "Ok"]
  /\ images_per_row = 2 /\ total_rows = 2 /\ num_images = 4
  /\ \A i \in 0..2 : pushed[i + 1] # pushed[4] /\ CellHolds(i, pushed[i + 1])
  /\ CellHolds(3, pushed[4])

\* Every pixel of the canvas that lies in cell i has the default value.
CellBlank(i) == \A p \in CellPixels(i) : canvas.px[p] = Default

\* C13: between pushes, while only cell-sized images have been pushed, every
\* cell with row-major index >= num_images is still all default pixels; with
\* no image pushed the whole canvas is.
C13_UnplacedCellsBlank ==
  (pc = "idle" /\ mismatched = 0) =>
    /\ num_images = 0 => \A p \in DOMAIN canvas.px : canvas.px[p] = Default
    /\ ValidGeometry =>
         \A i \in num_images..(images_per_row * total_rows - 1) : CellBlank(i)

\* C13 witness: three images in a 2 x 2 grid; the third cell is written and
\* the fourth is blank.
C13_Witness ==
  /\ pc = "idle" /\ mismatched = 0
  /\ images_per_row = 2 /\ total_rows = 2 /\ num_images = 3
  /\ ~CellBlank(2) /\ CellBlank(3)

\* Pixel p of the canvas lies under the image in flight, or last pasted,
\* laid with its top-left pixel at paste_at.
Covered(p) ==
  /\ p[1] >= paste_at[1] /\ p[1] < paste_at[1] + image.width
  /\ p[2] >= paste_at[2] /\ p[2] < paste_at[2] + image.height

\* The canvas the paste found with the image laid over it at paste_at: a
\* covered pixel has the value of the image's pixel above it, every other
\* pixel the value it had. It is what the for_each leaves when every item
\* has been processed.
Pasted ==
  [canvas_before EXCEPT
     !.px = [p \in DOMAIN canvas_before.px |->
               IF Covered(p)
               THEN image.pixels[(p[2] - paste_at[2]) * image.width
                                 + (p[1] - paste_at[1])]
               ELSE canvas_before.px[p]]]

\* The last call was a push that reached paste, and it has returned or
\* unwound.
PasteOver == pc = "idle" /\ result.op = "push" /\ result.status \in {"Ok", "PanicOutOfBounds"}

C14_UnwoundWritten ==
  /\ PasteOver /\ result.status = "PanicOutOfBounds"
  /\ cell_width = 1 /\ cell_height = 1 /\ images_per_row = 1 /\ total_rows = 1
  /\ image.width = 2 /\ image.pixels[0] = 1
  /\ canvas.px[<<0, 0>>] = 1

\* The same push from the same state has unwound with its first pixel not
\* written.
C14_UnwoundUnwritten ==
  /\ PasteOver /\ result.status = "PanicOutOfBounds"
  /\ cell_width = 1 /\ cell_height = 1 /\ images_per_row = 1 /\ total_rows = 1
  /\ image.width = 2 /\ image.pixels[0] = 1
  /\ canvas.px[<<0, 0>>] = Default

\* C15: while a cell-sized image is being pasted, every destination a worker
\* has asked a handout for lies in the canvas: x < cell_width * images_per_row
\* and y < cell_height * total_rows.
C15_DestinationsInCanvas ==
  (pc = "pasting" /\ CellSized(image)) =>
    \A ho \in issued : /\ ho.x < cell_width * images_per_row
                       /\ ho.y < cell_height * total_rows

\* C15 witness: the last pixel of the last cell of a grid of two rows has
\* been asked for: the destination with the largest x and y of the canvas.
C15_Witness ==
  /\ pc = "pasting" /\ CellSized(image) /\ total_rows = 2
  /\ paste_index = images_per_row * total_rows - 1
  /\ \E ho \in issued : /\ ho.x = cell_width * images_per_row - 1
                        /\ ho.y = cell_height * total_rows - 1

\* The push of a cell-sized image is in flight.
Pushing == pc = "pasting" /\ CellSized(image)

\* The push of image paste_index has returned: every one of its cell_width *
\* cell_height pixels was handed out and written, and the counters advanced.
Pushed ==
  /\ pc = "idle" /\ result = [op |-> "push", status |-> "Ok"]
  /\ Unwritten = {} /\ Cardinality(issued) = cell_width * cell_height
  /\ CellHolds(paste_index, image)
  /\ num_images = paste_index + 1 /\ last_pasted_index = paste_index

\* No worker waits on another: a worker holding a handout can write its
\* pixel, and while pixels are left a free worker can take any of them.
NoWorkerWaits ==
  /\ \A ho \in handouts : ENABLED WorkerPut(ho)
  /\ Cardinality(handouts) < NumWorkers => \A index \in todo : ENABLED WorkerRequest(index)

\* C16: under weak fairness of the workers every push of a cell-sized image
\* that has started is eventually completed, with all its pixels written and
\* the counters advanced, and during it no worker waits on another.
C16_PushCompletes ==
  /\ Pushing ~> Pushed
  /\ [](Pushing => NoWorkerWaits)

\* C16 witness: a push of two pixels has completed as the second image.
C16_Witness ==
  /\ Pushed /\ CellSized(image) /\ paste_index = 1 /\ cell_width * cell_height = 2

\* The image in flight, or last pasted, laid at paste_at lies in the canvas.
FitsCanvas ==
  /\ paste_at[1] + image.width <= canvas.width
  /\ paste_at[2] + image.height <= canvas.height

C17_Underfilled ==
  /\ PasteOver /\ result.status = "Ok"
  /\ cell_width = 2 /\ cell_height = 1
  /\ image.width = 1 /\ image.height = 1 /\ paste_index = 0 /\ num_images = 1
  /\ canvas.px[<<0, 0>>] = image.pixels[0] /\ canvas.px[<<1, 0>>] = Default

====
